---- MODULE Spec2Model ----
(***************************************************************************)
(* Model of the hurricane forecasting pipeline:                            *)
(*   - prep_hurricane_data            (ingest.py)                          *)
(*   - _generate_sparse_feature_vector (hurricane_ai/plotting_utils.py)    *)
(*   - run_live_inference              (deploy.py)                         *)
(*   - the batch driver's storm loop   (test.py)                           *)
(*                                                                         *)
(* Timestamps are whole hours since an epoch at 00:00 of the first day of  *)
(* a month (the feeds carry %Y%m%d%H stamps), so year and month are        *)
(* constant over the modelled span and only day and hour are derived.      *)
(* Floating point values are exact rationals [kind, n, d] with the IEEE    *)
(* special values "nan", "inf" and "-inf" kept apart.                      *)
(*                                                                         *)
(* deploy.py builds its model with a model_path argument and calls         *)
(* model.predict, and test.py imports batch_inference from deploy; none of *)
(* these is defined in the files modelled, so Predict, StepCounts and      *)
(* batch_inference follow the documented contract of the adapter.          *)
(***************************************************************************)
EXTENDS Integers, Sequences, FiniteSets, TLC

VARIABLES
    observations,   \* prep_hurricane_data: the raw observation list passed in
    lag,            \* prep_hurricane_data: the lag passed in
    df,             \* prep_hurricane_data: the outcome (table or raised error)
    prep_pc,        \* "call" before the call, "returned" after it, "off" when unused
    vector_length,  \* descaler: N, the scaler's fitted dimensionality
    feature_index,  \* descaler: index of the target feature
    feature_value,  \* descaler: the scaled value to place
    scaler,         \* descaler: the fitted scaler (center_, scale_)
    physical,       \* descaler: a feature vector in physical units
    features,       \* descaler: outcome of _generate_sparse_feature_vector
    inverted,       \* descaler: scaler.inverse_transform of the sparse vector
    read_value,     \* descaler: the entry read back from the inverted vector
    sparse_pc,      \* "call", "built", "raised", "inverted", "read", "off"
    program,        \* the entry point run: "deploy" (run_live_inference), "test", "none"
    config,         \* test.py: which keys the configuration file holds
    model_type,     \* deploy.py: "universal", "wind", "lat" or "long"
    model,          \* deploy.py: what the local name `model` is bound to
    steps,          \* number of forecast steps the loaded model emits
    storms,         \* the storms to process (nhc() result / storms of the test file)
    storm_i,        \* position of the storm being processed (0 before the first)
    pc,             \* position in the storm loop
    live_df,        \* deploy.py: df of the current storm
    result,         \* deploy.py: result of model.predict for the current storm
    day,            \* deploy.py: loop variable of the descaling loop
    wind_result,    \* deploy.py: local list (Unbound until assigned)
    lat_result,     \* deploy.py: local list (Unbound until assigned)
    long_result,    \* deploy.py: local list (Unbound until assigned)
    predictions,    \* test.py: the predictions dict of the current storm
    tables,         \* test.py: anchors for which a table was assembled
    log,            \* what the run did, in order: [ev, storm]
    forecasts,      \* deploy.py: the descaled values printed
    predict_calls,  \* deploy.py: the calls of model.predict made
    error           \* the exception that ended the run, "none" otherwise

prepVars == <<observations, lag, df, prep_pc>>

sparseVars == <<vector_length, feature_index, feature_value, scaler, physical,
                features, inverted, read_value, sparse_pc>>

runVars == <<program, config, model_type, model, steps, storms, storm_i, pc,
             live_df, result, day, wind_result, lat_result, long_result,
             predictions, tables, log, forecasts, predict_calls, error>>

vars == <<prepVars, sparseVars, runVars>>

-----------------------------------------------------------------------------
(* Bounds of the model *)

MaxObs == 3
MaxLag == 2
MaxVecLen == 3
MaxStorms == 2

(* Program constants *)

SecondsPerInterval == 21600
SecondsPerHour == 3600
SecondsPerDay == 86400
LiveLag == 5
MinEntries == 5
UniversalDays == 4
SingularDays == 3
ScalerFeatures == 11
input_length == 6

-----------------------------------------------------------------------------
(* Floating point values *)

NaN == [kind |-> "nan", n |-> 0, d |-> 1]
PosInf == [kind |-> "inf", n |-> 0, d |-> 1]
NegInf == [kind |-> "-inf", n |-> 0, d |-> 1]
Fl(n, d) == [kind |-> "num", n |-> n, d |-> d]
Whole(n) == Fl(n, 1)

IsNaN(x) == x.kind = "nan"
IsFinite(x) == x.kind = "num"

\* equality of two floats as numbers (cross multiplication, d > 0)
FlEq(x, y) ==
    IF x.kind = "num" /\ y.kind = "num" THEN x.n * y.d = y.n * x.d
    ELSE x.kind = y.kind /\ x.kind # "nan"

\* IEEE division of an integer numerator by the quotient num/den (den > 0),
\* as numpy performs it on float64 columns: x/0 is +-inf, 0/0 is nan.
FloatDiv(numer, num, den) ==
    IF num = 0 THEN
        IF numer = 0 THEN NaN
        ELSE IF numer > 0 THEN PosInf ELSE NegInf
    ELSE IF num > 0 THEN Fl(numer * den, num)
    ELSE Fl(-(numer * den), -num)

-----------------------------------------------------------------------------
(* prep_hurricane_data *)

\* DataFrame.sort_values(by="time"): rows in ascending time; rows with equal
\* time keep their input order (numpy sorts short arrays by insertion).
RECURSIVE InsertByTime(_, _)
InsertByTime(s, x) ==
    IF s = <<>> THEN <<x>>
    ELSE IF s[Len(s)].time <= x.time THEN Append(s, x)
    ELSE Append(InsertByTime(SubSeq(s, 1, Len(s) - 1), x), s[Len(s)])

RECURSIVE sort_values(_)
sort_values(s) ==
    IF s = <<>> THEN <<>>
    ELSE InsertByTime(sort_values(SubSeq(s, 1, Len(s) - 1)), s[Len(s)])

Max2(a, b) == IF a >= b THEN a ELSE b
Min2(a, b) == IF a <= b THEN a ELSE b

\* Series.cummax() / Series.cummin() at row i (1-based) of a column without
\* missing values
RECURSIVE cummax(_, _)
cummax(col, i) == IF i = 1 THEN col[1] ELSE Max2(cummax(col, i - 1), col[i])

RECURSIVE cummin(_, _)
cummin(col, i) == IF i = 1 THEN col[1] ELSE Min2(cummin(col, i - 1), col[i])

\* Series.shift(l) leaves the first l rows missing
HasShift(i, l) == i > l

\* (df["time"] - df["time"].shift(l)).dt.seconds at row i: the seconds
\* component of the timedelta (0 .. 86399), its days component is not counted
dt_seconds(s, i, l) == ((s[i].time - s[i - l].time) * SecondsPerHour) % SecondsPerDay

\* the derived columns of row i of the sorted frame s
max_wind(s, i) == cummax([k \in 1..Len(s) |-> s[k].wind], i)

min_pressure(s, i) == cummin([k \in 1..Len(s) |-> s[k].pressure], i)

delta_wind(s, i, l) ==
    IF ~HasShift(i, l) THEN NaN
    ELSE FloatDiv(max_wind(s, i) - max_wind(s, i - l),
                  dt_seconds(s, i, l), SecondsPerInterval)

zonal_speed(s, i, l) ==
    IF ~HasShift(i, l) THEN NaN
    ELSE FloatDiv(s[i].lat - s[i - l].lat, dt_seconds(s, i, l), SecondsPerHour)

meridonal_speed(s, i, l) ==
    IF ~HasShift(i, l) THEN NaN
    ELSE FloatDiv(s[i].lon - s[i - l].lon, dt_seconds(s, i, l), SecondsPerHour)

\* df.assign(...): one row of the frame with its derived columns; src is the
\* position of the row in the sorted frame
AssignRow(s, i, l) ==
    [src |-> i,
     time |-> s[i].time, wind |-> s[i].wind, lat |-> s[i].lat,
     lon |-> s[i].lon, pressure |-> s[i].pressure,
     max_wind |-> max_wind(s, i),
     delta_wind |-> delta_wind(s, i, l),
     min_pressure |-> min_pressure(s, i),
     zonal_speed |-> zonal_speed(s, i, l),
     meridonal_speed |-> meridonal_speed(s, i, l),
     day |-> 1 + (s[i].time \div 24),
     hour |-> s[i].time % 24]

RowHasNa(r) ==
    IsNaN(r.delta_wind) \/ IsNaN(r.zonal_speed) \/ IsNaN(r.meridonal_speed)

\* DataFrame.dropna(): the rows holding no missing value (inf is not missing)
RECURSIVE dropna(_)
dropna(rows) ==
    IF rows = <<>> THEN <<>>
    ELSE LET rest == dropna(SubSeq(rows, 1, Len(rows) - 1))
             r == rows[Len(rows)]
         IN IF RowHasNa(r) THEN rest ELSE Append(rest, r)

\* the whole function: a frame built from an empty list has no "time" column,
\* so sort_values(by="time") raises KeyError
prep_hurricane_data(obs, l) ==
    IF obs = <<>> THEN [status |-> "KeyError", rows |-> <<>>]
    ELSE LET s == sort_values(obs)
         IN [status |-> "ok",
             rows |-> dropna([i \in 1..Len(s) |-> AssignRow(s, i, l)])]

-----------------------------------------------------------------------------
(* Inputs of prep_hurricane_data *)

Times == {0, 6, 24}
Winds == {30, 35}
Lats == {10, 11}
Lons == {-60, -61}
Pressures == {1000, 990}

Observation == [time : Times, wind : Winds, lat : Lats, lon : Lons, pressure : Pressures]

ObsSeqs == UNION {[1..n -> Observation] : n \in 0..MaxObs}

\* the six 6-hourly observations of the end-to-end scenario
ScenarioObs ==
    [k \in 1..6 |-> [time |-> 6 * (k - 1), wind |-> 30 + 5 * (k - 1),
                     lat |-> 10 + k, lon |-> -60 - k, pressure |-> 1000 - k]]

NoFrame == [status |-> "none", rows |-> <<>>]

PrepOff ==
    /\ observations = <<>>
    /\ lag = 0
    /\ df = NoFrame
    /\ prep_pc = "off"

PrepInit ==
    /\ \/ observations \in ObsSeqs /\ lag \in 1..MaxLag
       \/ observations = ScenarioObs /\ lag = LiveLag
    /\ df = NoFrame
    /\ prep_pc = "call"

PrepCall ==
    /\ prep_pc = "call"
    /\ df' = prep_hurricane_data(observations, lag)
    /\ prep_pc' = "returned"
    /\ UNCHANGED <<observations, lag>>

-----------------------------------------------------------------------------
(* Descaler: _generate_sparse_feature_vector and the scaler *)

Zero == Whole(0)

\* a Python list index: i in [0, n) is position i+1, i in [-n, 0) counts from
\* the end, anything else raises IndexError
PyInRange(n, i) == -n <= i /\ i < n
PyPos(n, i) == IF i >= 0 THEN i + 1 ELSE n + i + 1

\* faulty variants of _generate_sparse_feature_vector: the assignment is
\* forgotten; the value lands one position too far
SparseForgetsValue(N, index, value) ==
    IF ~PyInRange(N, index) THEN [status |-> "IndexError", list |-> <<>>]
    ELSE [status |-> "ok", list |-> [j \in 1..N |-> Zero]]

SparseOffByOne(N, index, value) ==
    IF ~PyInRange(N, index) THEN [status |-> "IndexError", list |-> <<>>]
    ELSE [status |-> "ok",
          list |-> [j \in 1..N |-> IF j = (PyPos(N, index) % N) + 1 THEN value ELSE Zero]]

\* features = [0] * vector_length; features[feature_index] = feature_value
generate_sparse_feature_vector(N, index, value) ==
    IF ~PyInRange(N, index) THEN [status |-> "IndexError", list |-> <<>>]
    ELSE [status |-> "ok",
          list |-> [j \in 1..N |-> IF j = PyPos(N, index) THEN value ELSE Zero]]

\* RobustScaler.transform: (x - center_) / scale_, coordinate by coordinate
scaler_transform(sc, x) ==
    [j \in 1..Len(x) |-> Fl(x[j] - sc.center[j], sc.scale[j])]

\* RobustScaler.inverse_transform: x * scale_ + center_, coordinate by coordinate
inverse_transform(sc, x) ==
    [j \in 1..Len(x) |-> Fl(x[j].n * sc.scale[j] + sc.center[j] * x[j].d, x[j].d)]

\* inverse_transform(...)[0][index]
read_back(vec, index) == vec[PyPos(Len(vec), index)]

Centers == {0, 5}
Scales == {1, 2}
PhysVals == {3, 8}
RawValue == Fl(21, 50)

SparseOff ==
    /\ vector_length = 0
    /\ feature_index = 0
    /\ feature_value = Zero
    /\ scaler = [center |-> <<>>, scale |-> <<>>]
    /\ physical = <<>>
    /\ features = [status |-> "none", list |-> <<>>]
    /\ inverted = <<>>
    /\ read_value = NaN
    /\ sparse_pc = "off"

SparseInit ==
    /\ vector_length \in 0..MaxVecLen
    /\ feature_index \in (-(MaxVecLen + 1))..(MaxVecLen + 1)
    /\ scaler \in [center : [1..vector_length -> Centers],
                   scale : [1..vector_length -> Scales]]
    /\ physical \in [1..vector_length -> PhysVals]
    /\ feature_value \in {scaler_transform(scaler, physical)[j] : j \in 1..vector_length}
                         \cup {RawValue}
    /\ features = [status |-> "none", list |-> <<>>]
    /\ inverted = <<>>
    /\ read_value = NaN
    /\ sparse_pc = "call"

\* the call _generate_sparse_feature_vector(N, feature_index, feature_value)
SparseBuild ==
    /\ sparse_pc = "call"
    /\ features' = generate_sparse_feature_vector(vector_length, feature_index, feature_value)
    /\ sparse_pc' = IF features'.status = "ok" THEN "built" ELSE "raised"
    /\ UNCHANGED <<vector_length, feature_index, feature_value, scaler, physical,
                   inverted, read_value>>

\* scaler.inverse_transform([vector])
SparseInvert ==
    /\ sparse_pc = "built"
    /\ inverted' = inverse_transform(scaler, features.list)
    /\ sparse_pc' = "inverted"
    /\ UNCHANGED <<vector_length, feature_index, feature_value, scaler, physical,
                   features, read_value>>

\* ...[0][feature_index]
SparseRead ==
    /\ sparse_pc = "inverted"
    /\ read_value' = read_back(inverted, feature_index)
    /\ sparse_pc' = "read"
    /\ UNCHANGED <<vector_length, feature_index, feature_value, scaler, physical,
                   features, inverted>>

-----------------------------------------------------------------------------
(* Storms and the model handle shared by the two entry points *)

\* a local name not yet assigned, and one bound to a list
Unbound == [bound |-> FALSE, list |-> <<>>]
Bound(l) == [bound |-> TRUE, list |-> l]

\* what nhc() returns: None on its "no active storms" path, else the list
NoStorms == [none |-> TRUE, items |-> <<>>]
StormList(l) == [none |-> FALSE, items |-> l]

\* the value None where a prediction set or a model is expected
NoPrediction == [variant |-> "None", anchors |-> <<>>]
NoModel == [class |-> "NoneType", type |-> "none"]

StormSizes == {3, 5, 6, 7}
Spacings == {6, 24}
StormKind == [n : StormSizes, spacing : Spacings]

\* the observation of rank k (0 = oldest) of a storm observed every `spacing` hours
TrackPoint(k, spacing) ==
    [time |-> k * spacing, wind |-> 30 + 5 * k, lat |-> 10 + k,
     lon |-> -60 - k, pressure |-> 1000 - k]

\* storm['entries'] as nhc() builds it: the current observation first, then
\* the past track in time order
LiveEntries(kind) ==
    [j \in 1..kind.n |->
        IF j = 1 THEN TrackPoint(kind.n - 1, kind.spacing)
        ELSE TrackPoint(j - 2, kind.spacing)]

StormLists == UNION {[1..m -> StormKind] : m \in 0..MaxStorms}

ModelTypes == {"universal", "wind", "lat", "long"}
StepCounts == {3, 4, 5}

\* the object BidrectionalLstmHurricaneModel(...) returns
ModelHandle(type) == [class |-> "BidrectionalLstmHurricaneModel", type |-> type]
IsHandle(m) == m.class = "BidrectionalLstmHurricaneModel"

\* model.predict(df, lag): one scaled output per forecast step, a (wind, lat,
\* lon) triple for the universal model and a scalar for a singular one
Predict(type, frame, k) ==
    [d \in 1..k |->
        IF type = "universal"
        THEN <<Fl(100 * Len(frame) + 10 * d + 1, 1000),
               Fl(100 * Len(frame) + 10 * d + 2, 1000),
               Fl(100 * Len(frame) + 10 * d + 3, 1000)>>
        ELSE Fl(100 * Len(frame) + 10 * d + 1, 1000)]

\* the scaler unpickled from scaler_file
LiveScaler ==
    [center |-> [j \in 1..ScalerFeatures |-> 10 * j],
     scale |-> [j \in 1..ScalerFeatures |-> j + 1]]

Ev(e, i) == [ev |-> e, storm |-> i]

RunOff ==
    /\ program = "none"
    /\ config = {}
    /\ model_type = "none"
    /\ model = NoModel
    /\ steps = 0
    /\ storms = StormList(<<>>)
    /\ storm_i = 0
    /\ pc = "off"
    /\ live_df = NoFrame
    /\ result = <<>>
    /\ day = 0
    /\ wind_result = Unbound
    /\ lat_result = Unbound
    /\ long_result = Unbound
    /\ predictions = [universal |-> NoPrediction, singular |-> NoPrediction]
    /\ tables = <<>>
    /\ log = <<>>
    /\ forecasts = <<>>
    /\ predict_calls = <<>>
    /\ error = "none"

-----------------------------------------------------------------------------
(* deploy.py: run_live_inference *)

\* state after lines 29-52: configuration read, model built, nhc() returned
LiveInit ==
    /\ program = "deploy"
    /\ config = {}
    /\ model_type \in ModelTypes
    /\ model = ModelHandle(model_type)
    /\ steps \in StepCounts
    /\ storms \in {StormList(l) : l \in StormLists} \cup {NoStorms}
    /\ storm_i = 0
    /\ pc = "for"
    /\ live_df = NoFrame
    /\ result = <<>>
    /\ day = 0
    /\ wind_result = Unbound
    /\ lat_result = Unbound
    /\ long_result = Unbound
    /\ predictions = [universal |-> NoPrediction, singular |-> NoPrediction]
    /\ tables = <<>>
    /\ log = <<>>
    /\ forecasts = <<>>
    /\ predict_calls = <<>>
    /\ error = "none"

Raise(e) ==
    /\ error' = e
    /\ pc' = "crashed"

\* line 54: for storm in live_storms
LiveFor ==
    /\ program = "deploy" /\ pc = "for"
    /\ IF storms.none
       THEN Raise("TypeError") /\ UNCHANGED storm_i
       ELSE IF storm_i < Len(storms.items)
            THEN storm_i' = storm_i + 1 /\ pc' = "prep" /\ UNCHANGED error
            ELSE pc' = "done" /\ UNCHANGED <<storm_i, error>>
    /\ UNCHANGED <<program, config, model_type, model, steps, storms, live_df,
                   result, day, wind_result, lat_result, long_result,
                   predictions, tables, log, forecasts, predict_calls>>

\* lines 55-58: df = prep_hurricane_data(storm["entries"], lag)
LivePrep ==
    /\ program = "deploy" /\ pc = "prep"
    /\ live_df' = prep_hurricane_data(LiveEntries(storms.items[storm_i]), LiveLag)
    /\ IF live_df'.status = "ok"
       THEN /\ log' = Append(log, Ev("features", storm_i))
            /\ pc' = "check"
            /\ UNCHANGED error
       ELSE Raise(live_df'.status) /\ UNCHANGED log
    /\ UNCHANGED <<program, config, model_type, model, steps, storms, storm_i,
                   result, day, wind_result, lat_result, long_result,
                   predictions, tables, forecasts, predict_calls>>

\* faulty variant of LiveInsufficient: the comparison is strict
LiveInsufficientStrict(entries) == Len(entries) < MinEntries

\* line 60: if (len(storm["entries"])) <= 5
LiveInsufficient(entries) == Len(entries) <= MinEntries

\* faulty variant of AfterSkip: the `continue` is missing
AfterSkipFallsThrough == "predict"

\* line 62: continue
AfterSkip == "for"

\* lines 60-62: the skip
LiveCheck ==
    /\ program = "deploy" /\ pc = "check"
    /\ IF LiveInsufficient(LiveEntries(storms.items[storm_i]))
       THEN log' = Append(log, Ev("skip", storm_i)) /\ pc' = AfterSkip
       ELSE pc' = "predict" /\ UNCHANGED log
    /\ UNCHANGED <<program, config, model_type, model, steps, storms, storm_i,
                   live_df, result, day, wind_result, lat_result, long_result,
                   predictions, tables, forecasts, predict_calls, error>>

\* lines 65-70: result = model.predict(df, lag); the scaler is unpickled
LivePredict ==
    /\ program = "deploy" /\ pc = "predict"
    /\ IF IsHandle(model)
       THEN /\ result' = Predict(model.type, live_df.rows, steps)
            /\ predict_calls' = Append(predict_calls,
                   [storm |-> storm_i, handle |-> model,
                    rows |-> Len(live_df.rows), output |-> result'])
            /\ log' = Append(log, Ev("predict", storm_i))
            /\ day' = 0
            /\ pc' = "descale"
            /\ UNCHANGED error
       ELSE /\ Raise("AttributeError")
            /\ UNCHANGED <<result, predict_calls, log, day>>
    /\ UNCHANGED <<program, config, model_type, model, steps, storms, storm_i,
                   live_df, wind_result, lat_result, long_result,
                   predictions, tables, forecasts>>

\* one printed value: the sparse vector built around x at index `placed`,
\* inverse-transformed and read at index `read`
Descaled(i, d, var, src, placed, read, x) ==
    LET vec == generate_sparse_feature_vector(ScalerFeatures, placed, x).list
    IN [storm |-> i, day |-> d, var |-> var, src |-> src, vector |-> vec,
        placed |-> placed, read |-> read,
        value |-> read_back(inverse_transform(LiveScaler, vec), read)]

\* faulty variant of UniversalForecasts: the triple read in (lat, lon, wind) order
UniversalForecastsSwapped(i, d, res) ==
    <<Descaled(i, d, "wind", 2, 2, 2, res[d + 1][3]),
      Descaled(i, d, "lat", 0, 0, 0, res[d + 1][1]),
      Descaled(i, d, "long", 1, 1, 1, res[d + 1][2])>>

\* lines 75-92: wind_index = 0, lat_index = 1, long_index = 2 and the three
\* values printed for one day
UniversalForecasts(i, d, res) ==
    <<Descaled(i, d, "wind", 0, 2, 2, res[d + 1][1]),
      Descaled(i, d, "lat", 1, 0, 0, res[d + 1][2]),
      Descaled(i, d, "long", 2, 1, 1, res[d + 1][3])>>

\* lines 73-92: one pass of `for day in range(4)`, or the end of the loop
LiveUniversalDay ==
    /\ program = "deploy" /\ pc = "descale" /\ model_type = "universal"
    /\ IF day = UniversalDays
       THEN /\ log' = Append(log, Ev("done", storm_i))
            /\ pc' = "for"
            /\ UNCHANGED <<day, forecasts, wind_result, lat_result, long_result, error>>
       ELSE IF day >= Len(result)
            THEN /\ Raise("IndexError")
                 /\ UNCHANGED <<day, forecasts, wind_result, lat_result, long_result, log>>
            ELSE LET f == UniversalForecasts(storm_i, day, result)
                 IN /\ forecasts' = forecasts \o f
                    /\ wind_result' = Bound(<<f[1].vector>>)
                    /\ lat_result' = Bound(<<f[2].vector>>)
                    /\ long_result' = Bound(<<f[3].vector>>)
                    /\ day' = day + 1
                    /\ UNCHANGED <<pc, log, error>>
    /\ UNCHANGED <<program, config, model_type, model, steps, storms, storm_i,
                   live_df, result, predictions, tables, predict_calls>>

\* lines 94-109: one pass of `for day in range(3)`, or the end of the loop
LiveSingularDay ==
    /\ program = "deploy" /\ pc = "descale" /\ model_type # "universal"
    /\ IF day = SingularDays
       THEN /\ log' = Append(log, Ev("done", storm_i))
            /\ pc' = "for"
            /\ UNCHANGED <<day, forecasts, wind_result, lat_result, long_result,
                           model, error>>
       ELSE IF model_type = "wind"
            THEN IF day >= Len(result)
                 THEN /\ Raise("IndexError")
                      /\ UNCHANGED <<day, forecasts, wind_result, lat_result,
                                     long_result, model, log>>
                 ELSE LET f == Descaled(storm_i, day, "wind", -1, 2, 2, result[day + 1])
                      IN /\ forecasts' = Append(forecasts, f)
                         /\ wind_result' = Bound(<<f.vector>>)
                         /\ day' = day + 1
                         /\ UNCHANGED <<pc, log, error, lat_result, long_result, model>>
            ELSE IF model_type = "lat"
            THEN IF ~lat_result.bound
                 THEN /\ Raise("NameError")
                      /\ UNCHANGED <<day, forecasts, wind_result, lat_result,
                                     long_result, model, log>>
                 ELSE IF day >= Len(result)
                 THEN /\ Raise("IndexError")
                      /\ UNCHANGED <<day, forecasts, wind_result, lat_result,
                                     long_result, model, log>>
                 ELSE LET f == Descaled(storm_i, day, "lat", -1, 0, 0, result[day + 1])
                          first == [f EXCEPT !.vector = lat_result.list[1],
                                      !.value = read_back(
                                          inverse_transform(LiveScaler, lat_result.list[1]), 0)]
                      IN /\ forecasts' = Append(forecasts, first)
                         /\ lat_result' = Bound(Append(lat_result.list, f.vector))
                         /\ day' = day + 1
                         /\ UNCHANGED <<pc, log, error, wind_result, long_result, model>>
            ELSE /\ model' = [class |-> "str", type |-> "long"]
                 /\ IF day >= Len(result)
                    THEN /\ Raise("IndexError")
                         /\ UNCHANGED <<day, forecasts, wind_result, lat_result,
                                        long_result, log>>
                    ELSE LET f == Descaled(storm_i, day, "long", -1, 1, 1, result[day + 1])
                         IN /\ forecasts' = Append(forecasts, f)
                            /\ long_result' = Bound(<<f.vector>>)
                            /\ day' = day + 1
                            /\ UNCHANGED <<pc, log, error, wind_result, lat_result>>
    /\ UNCHANGED <<program, config, model_type, steps, storms, storm_i,
                   live_df, result, predictions, tables, predict_calls>>

-----------------------------------------------------------------------------
(* test.py: the batch driver's loop over the storms of the test file *)

ConfigKeys == {"all_timesteps", "univariate"}

\* output_times = [6, 12, 24, 36, 48]
output_times == <<6, 12, 24, 36, 48>>

\* [* hurricane.entries]: the storm's timestamps in file order
BatchTimes(kind) == [j \in 1..kind.n |-> (j - 1) * kind.spacing]

\* [* hurricane.entries][len(output_times) : ]
AnchorTimes(kind) ==
    LET t == BatchTimes(kind)
    IN IF Len(t) <= Len(output_times) THEN <<>>
       ELSE SubSeq(t, Len(output_times) + 1, Len(t))

\* batch_inference(...): forecasts of one model variant for every anchor of
\* the storm that has a full feature window behind it
batch_inference(variant, kind) ==
    [variant |-> variant, anchors |-> AnchorTimes(kind)]

BatchInit ==
    /\ program = "test"
    /\ config \in SUBSET ConfigKeys
    /\ model_type = "none"
    /\ model = NoModel
    /\ steps = Len(output_times)
    /\ storms \in {StormList(l) : l \in StormLists}
    /\ storm_i = 0
    /\ pc = "for"
    /\ live_df = NoFrame
    /\ result = <<>>
    /\ day = 0
    /\ wind_result = Unbound
    /\ lat_result = Unbound
    /\ long_result = Unbound
    /\ predictions = [universal |-> NoPrediction, singular |-> NoPrediction]
    /\ tables = <<>>
    /\ log = <<>>
    /\ forecasts = <<>>
    /\ predict_calls = <<>>
    /\ error = "none"

batchFrame == <<program, config, model_type, model, steps, storms, live_df,
                result, day, wind_result, lat_result, long_result, forecasts,
                predict_calls>>

\* lines 129-131: for storm in data.storm_id.unique()
BatchFor ==
    /\ program = "test" /\ pc = "for"
    /\ IF storm_i < Len(storms.items)
       THEN storm_i' = storm_i + 1 /\ pc' = "check"
       ELSE pc' = "done" /\ UNCHANGED storm_i
    /\ UNCHANGED <<batchFrame, predictions, tables, log, error>>

\* faulty variant of BatchInsufficient: the minimum is one too low
BatchInsufficientLoose(kind) == kind.n < input_length - 1

\* line 133: if len(entries) < input_length
BatchInsufficient(kind) == kind.n < input_length

\* lines 133-135: the skip
BatchCheck ==
    /\ program = "test" /\ pc = "check"
    /\ IF BatchInsufficient(storms.items[storm_i])
       THEN log' = Append(log, Ev("skip", storm_i)) /\ pc' = "for"
       ELSE pc' = "build" /\ UNCHANGED log
    /\ UNCHANGED <<batchFrame, storm_i, predictions, tables, error>>

\* lines 138-148: the Hurricane object is filled; the mode is chosen
BatchBuild ==
    /\ program = "test" /\ pc = "build"
    /\ log' = Append(log, Ev("hurricane", storm_i))
    /\ tables' = <<>>
    /\ pc' = IF "all_timesteps" \in config THEN "universal" ELSE "single"
    /\ UNCHANGED <<batchFrame, storm_i, predictions, error>>

\* lines 150-155: predictions['universal'] = batch_inference(...)
BatchUniversal ==
    /\ program = "test" /\ pc = "universal"
    /\ predictions' = [universal |-> batch_inference("universal", storms.items[storm_i]),
                       singular |-> NoPrediction]
    /\ log' = Append(log, Ev("inference_universal", storm_i))
    /\ pc' = "singular"
    /\ UNCHANGED <<batchFrame, storm_i, tables, error>>

\* lines 156-160: predictions['singular'] = batch_inference(...) if
\* 'univariate' in config else None
BatchSingular ==
    /\ program = "test" /\ pc = "singular"
    /\ IF "univariate" \in config
       THEN /\ predictions' = [predictions EXCEPT
                   !.singular = batch_inference("singular", storms.items[storm_i])]
            /\ log' = Append(log, Ev("inference_singular", storm_i))
       ELSE UNCHANGED <<predictions, log>>
    /\ pc' = "clear"
    /\ UNCHANGED <<batchFrame, storm_i, tables, error>>

\* faulty variant of clear_session: the session is never released
clear_session_missing(i) == <<>>

\* line 163: tf.keras.backend.clear_session()
clear_session(i) == <<Ev("clear_session", i)>>

BatchClear ==
    /\ program = "test" /\ pc = "clear"
    /\ log' = log \o clear_session(storm_i)
    /\ pc' = "tables"
    /\ UNCHANGED <<batchFrame, storm_i, predictions, tables, error>>

\* lines 165-178: tables = {timestamp : create_table(...) for timestamp in
\* [* hurricane.entries][len(output_times) : ]}; the 'singular' half of each
\* argument subscripts predictions['singular']
BatchTables ==
    /\ program = "test" /\ pc = "tables"
    /\ LET anchors == AnchorTimes(storms.items[storm_i])
       IN IF anchors # <<>> /\ predictions.singular = NoPrediction
          THEN Raise("TypeError") /\ UNCHANGED <<tables, log>>
          ELSE /\ tables' = anchors
               /\ log' = Append(log, Ev("tables", storm_i))
               /\ pc' = "write"
               /\ UNCHANGED error
    /\ UNCHANGED <<batchFrame, storm_i, predictions>>

\* lines 180-235: the workbook is written, the disabled loop is not entered
BatchWrite ==
    /\ program = "test" /\ pc = "write"
    /\ log' = Append(log, Ev("done", storm_i))
    /\ pc' = "for"
    /\ UNCHANGED <<batchFrame, storm_i, predictions, tables, error>>

\* lines 237-255: single-pass mode; create_table(inferences, hurricane) is
\* called without its third parameter `deltas`
BatchSinglePass ==
    /\ program = "test" /\ pc = "single"
    /\ log' = log \o <<Ev("inference_universal", storm_i)>>
                  \o (IF "univariate" \in config
                      THEN <<Ev("inference_singular", storm_i)>> ELSE <<>>)
    /\ Raise("TypeError")
    /\ UNCHANGED <<batchFrame, storm_i, predictions, tables>>

-----------------------------------------------------------------------------
(* Specifications *)

PrepNext == PrepCall /\ UNCHANGED <<sparseVars, runVars>>

InitPrep == PrepInit /\ SparseOff /\ RunOff

SpecPrep == InitPrep /\ [][PrepNext]_vars

SparseNext ==
    \/ SparseBuild /\ UNCHANGED <<prepVars, runVars>>
    \/ SparseInvert /\ UNCHANGED <<prepVars, runVars>>
    \/ SparseRead /\ UNCHANGED <<prepVars, runVars>>

InitSparse == SparseInit /\ PrepOff /\ RunOff

SpecSparse == InitSparse /\ [][SparseNext]_vars

Init == (LiveInit \/ BatchInit) /\ PrepOff /\ SparseOff

Next ==
    \/ LiveFor /\ UNCHANGED <<prepVars, sparseVars>>
    \/ LivePrep /\ UNCHANGED <<prepVars, sparseVars>>
    \/ LiveCheck /\ UNCHANGED <<prepVars, sparseVars>>
    \/ LivePredict /\ UNCHANGED <<prepVars, sparseVars>>
    \/ LiveUniversalDay /\ UNCHANGED <<prepVars, sparseVars>>
    \/ LiveSingularDay /\ UNCHANGED <<prepVars, sparseVars>>
    \/ BatchFor /\ UNCHANGED <<prepVars, sparseVars>>
    \/ BatchCheck /\ UNCHANGED <<prepVars, sparseVars>>
    \/ BatchBuild /\ UNCHANGED <<prepVars, sparseVars>>
    \/ BatchUniversal /\ UNCHANGED <<prepVars, sparseVars>>
    \/ BatchSingular /\ UNCHANGED <<prepVars, sparseVars>>
    \/ BatchClear /\ UNCHANGED <<prepVars, sparseVars>>
    \/ BatchTables /\ UNCHANGED <<prepVars, sparseVars>>
    \/ BatchWrite /\ UNCHANGED <<prepVars, sparseVars>>
    \/ BatchSinglePass /\ UNCHANGED <<prepVars, sparseVars>>

Spec == Init /\ [][Next]_vars

-----------------------------------------------------------------------------
(* Properties of prep_hurricane_data, checked under SpecPrep *)

Returned == prep_pc = "returned"

RowDefined(r) ==
    IsFinite(r.delta_wind) /\ IsFinite(r.zonal_speed) /\ IsFinite(r.meridonal_speed)

\* C1: for n > lag observations the call returns exactly n - lag rows and no
\* derived field of a returned row is undefined.
C1_RowCount ==
    (Returned /\ Len(observations) > lag) =>
        /\ df.status = "ok"
        /\ Len(df.rows) = Len(observations) - lag
        /\ \A k \in 1..Len(df.rows) : RowDefined(df.rows[k])

\* C2: for 0 <= n <= lag observations (the empty list included) the call
\* returns an empty table and raises nothing.
C2_EmptyTable ==
    (Returned /\ Len(observations) <= lag) =>
        (df.status = "ok" /\ df.rows = <<>>)

\* the rate the specification gives: the running maximum's change over the
\* full elapsed time between rows i-lag and i, in 6-hour units
FullElapsedDeltaWind(s, i, l) ==
    FloatDiv(cummax([k \in 1..Len(s) |-> s[k].wind], i)
                 - cummax([k \in 1..Len(s) |-> s[k].wind], i - l),
             s[i].time - s[i - l].time, 6)

\* C3: every returned row's delta_wind is the change of the running maximum
\* wind over the full elapsed time in 6-hour units; the six-observation
\* scenario with lag 5 yields one row with max_wind 55 and delta_wind 5.
C3_DeltaWind ==
    (Returned /\ df.status = "ok") =>
        /\ \A k \in 1..Len(df.rows) :
              LET r == df.rows[k]
              IN FlEq(r.delta_wind,
                      FullElapsedDeltaWind(sort_values(observations), r.src, lag))
        /\ (observations = ScenarioObs /\ lag = LiveLag) =>
              /\ Len(df.rows) = 1
              /\ df.rows[1].max_wind = 55
              /\ FlEq(df.rows[1].delta_wind, Whole(5))

-----------------------------------------------------------------------------
(* Properties of the descaler, checked under SpecSparse *)

IndexInRange == 0 <= feature_index /\ feature_index < vector_length

\* C6: for 0 <= feature_index < N the vector built has length N, holds the
\* value at feature_index and 0 everywhere else.
C6_SparseVector ==
    (sparse_pc # "call" /\ vector_length >= 1 /\ IndexInRange) =>
        /\ features.status = "ok"
        /\ Len(features.list) = vector_length
        /\ features.list[feature_index + 1] = feature_value
        /\ \A j \in 1..vector_length :
              j # feature_index + 1 => features.list[j] = Zero

C6_Witness ==
    /\ sparse_pc = "built"
    /\ vector_length >= 2
    /\ IndexInRange
    /\ feature_index >= 1
    /\ ~FlEq(feature_value, Zero)

\* C7: placing scale(v)[i] at position i, inverse-transforming and reading
\* position i gives back v[i], whatever the other coordinates of v are.
C7_RoundTrip ==
    (/\ sparse_pc = "read"
     /\ IndexInRange
     /\ feature_value = scaler_transform(scaler, physical)[feature_index + 1]) =>
        FlEq(read_value, Whole(physical[feature_index + 1]))

C7_Witness ==
    /\ sparse_pc = "read"
    /\ IndexInRange
    /\ vector_length >= 2
    /\ feature_value = scaler_transform(scaler, physical)[feature_index + 1]
    /\ \E j \in 1..vector_length :
          /\ j # feature_index + 1
          /\ physical[j] # physical[feature_index + 1]
          /\ scaler.scale[j] # scaler.scale[feature_index + 1]
    /\ scaler.scale[feature_index + 1] # 1
    /\ scaler.center[feature_index + 1] # 0

\* C8: an index outside 0 <= feature_index < N (too large or negative) makes
\* the construction fail; no vector is returned for it.
C8_OutOfRangeRaises ==
    (sparse_pc # "call" /\ ~IndexInRange) => features.status = "IndexError"

-----------------------------------------------------------------------------
(* Properties of the storm loops, checked under Spec *)

Logged(e, i) == \E k \in 1..Len(log) : log[k] = Ev(e, i)

NumStorms == Len(storms.items)

\* the loop has left storm i behind
Passed(i) == storm_i > i \/ (storm_i = i /\ pc \in {"for", "done"})

\* C4: a storm with at most 5 observations is reported as skipped when the
\* loop comes to it, and neither model.predict (run_live_inference) nor an
\* inference call (batch driver) is ever made for it.
C4_ShortStormSkipped ==
    \A i \in 1..NumStorms :
        storms.items[i].n <= 5 =>
            /\ \A k \in 1..Len(predict_calls) : predict_calls[k].storm # i
            /\ ~Logged("predict", i)
            /\ ~Logged("inference_universal", i)
            /\ ~Logged("inference_singular", i)
            /\ Passed(i) => Logged("skip", i)

C4_Witness ==
    /\ program = "deploy"
    /\ \E i, j \in 1..NumStorms :
          /\ storms.items[i].n = 3
          /\ Logged("skip", i)
          /\ i < j
          /\ \E k \in 1..Len(predict_calls) : predict_calls[k].storm = j

\* C5: every storm of the list reaches Skip or Done, so a run of
\* run_live_inference that has ended has settled each of its storms.
C5_EveryStormSettled ==
    (program = "deploy" /\ pc \in {"done", "crashed"}) =>
        \A i \in 1..NumStorms : Logged("skip", i) \/ Logged("done", i)

\* C9: the name `model` stays bound to the handle built before the loop, and
\* every predict call is made on that handle.
C9_HandleUnchanged ==
    program = "deploy" =>
        /\ model = ModelHandle(model_type)
        /\ \A k \in 1..Len(predict_calls) :
              predict_calls[k].handle = ModelHandle(model_type)

\* the predict output the forecast f was computed from
OutputFor(f) ==
    (CHOOSE c \in {predict_calls[k] : k \in 1..Len(predict_calls)} :
        c.storm = f.storm).output

TriplePos(var) == CASE var = "wind" -> 1 [] var = "lat" -> 2 [] var = "long" -> 3
ScalerIndex(var) == CASE var = "wind" -> 2 [] var = "lat" -> 0 [] var = "long" -> 1

\* C10: for the universal model every printed value comes from the step's
\* triple in (wind, lat, lon) order, placed alone in an 11-long zero vector
\* at its scaler index (wind 2, lat 0, lon 1), and is the entry of the
\* inverse-transformed vector at that same index.
C10_UniversalDescale ==
    (program = "deploy" /\ model_type = "universal") =>
        \A k \in 1..Len(forecasts) :
            LET f == forecasts[k]
                x == OutputFor(f)[f.day + 1][TriplePos(f.var)]
                at == ScalerIndex(f.var) + 1
            IN /\ f.var = <<"wind", "lat", "long">>[((k - 1) % 3) + 1]
               /\ Len(f.vector) = 11
               /\ f.vector[at] = x
               /\ \A j \in 1..Len(f.vector) : j # at => f.vector[j] = Zero
               /\ f.read = ScalerIndex(f.var)
               /\ FlEq(f.value, inverse_transform(LiveScaler, f.vector)[at])

C10_Witness ==
    /\ program = "deploy"
    /\ model_type = "universal"
    /\ \E k \in 1..Len(forecasts) :
          /\ forecasts[k].storm = 2
          /\ forecasts[k].day = 3
          /\ forecasts[k].var = "long"

-----------------------------------------------------------------------------
(* Further properties of run_live_inference, checked under Spec *)

Calls == {predict_calls[k] : k \in 1..Len(predict_calls)}

\* the vector of f holds x alone at the scaler index of var, and the value
\* of f is the inverse-transformed vector's entry at that index
ProperlyDescaled(f, var, x) ==
    LET at == ScalerIndex(var) + 1
    IN /\ f.var = var
       /\ Len(f.vector) = 11
       /\ f.vector[at] = x
       /\ \A j \in 1..Len(f.vector) : j # at => f.vector[j] = Zero
       /\ f.read = ScalerIndex(var)
       /\ FlEq(f.value, inverse_transform(LiveScaler, f.vector)[at])

\* C11: for a singular model of each target (wind, lat, long) every forecast
\* step taken up is reported: its scalar sits alone in an 11-long zero
\* vector at the target's scaler index and the value printed is the
\* inverse-transformed entry at that index of the vector built for the step.
C11_SingularDescale ==
    (program = "deploy" /\ model_type \in {"wind", "lat", "long"}) =>
        /\ \A k \in 1..Len(forecasts) :
              ProperlyDescaled(forecasts[k], model_type,
                               OutputFor(forecasts[k])[forecasts[k].day + 1])
        /\ \A c \in Calls :
              ~(pc = "crashed" /\ storm_i = c.storm)

-----------------------------------------------------------------------------
(* Properties of the batch driver, checked under Spec *)

BatchMode == program = "test" /\ "all_timesteps" \in config

\* C12: with only the universal model configured (no 'univariate' entry)
\* batch mode assembles the universal tables of every storm without error.
C12_UniversalOnlyTables ==
    (BatchMode /\ "univariate" \notin config) =>
        /\ error = "none"
        /\ \A i \in 1..NumStorms :
              (Passed(i) /\ ~Logged("skip", i)) => Logged("tables", i)

\* C13: in batch mode a storm with n observations gets exactly one table per
\* eligible anchor, n - lag of them (the driver applies no further lookback).
C13_AnchorCount ==
    (BatchMode /\ storm_i >= 1 /\ pc \in {"write", "crashed"}) =>
        /\ Len(tables) = storms.items[storm_i].n - LiveLag
        /\ \A a, b \in 1..Len(tables) : tables[a] = tables[b] => a = b

-----------------------------------------------------------------------------
(* Feature window, zero divisions, state machine, step count, session      *)
(* release and the empty feed                                              *)

\* C14: every call of model.predict is given a feature window of at least
\* lag + 1 rows, also for a storm with exactly 6 observations.
C14_WindowRows ==
    program = "deploy" =>
        \A c \in Calls : c.rows >= LiveLag + 1

\* C15: a row whose lag computation divides by zero is not in the returned
\* table: no returned row has an undefined or non-finite delta_wind,
\* zonal_speed or meridonal_speed.
C15_ZeroDivisionExcluded ==
    (Returned /\ df.status = "ok") =>
        \A k \in 1..Len(df.rows) :
            LET r == df.rows[k]
            IN /\ r.src > lag
               /\ dt_seconds(sort_values(observations), r.src, lag) # 0
               /\ IsFinite(r.delta_wind)
               /\ IsFinite(r.zonal_speed)
               /\ IsFinite(r.meridonal_speed)

\* what the log holds for storm i, in order
StormEvents(i) ==
    LET sel == SelectSeq(log, LAMBDA e : e.storm = i)
    IN [k \in 1..Len(sel) |-> sel[k].ev]

IsPrefix(a, b) == Len(a) <= Len(b) /\ a = SubSeq(b, 1, Len(a))

HasForecast(i) == \E k \in 1..Len(forecasts) : forecasts[k].storm = i

\* the order every storm that is not skipped follows: features are built,
\* then the model is invoked, then values are descaled, then the storm is done
ProcessedInOrder(i) ==
    /\ HasForecast(i) => (Logged("predict", i) /\ ~Logged("skip", i))
    /\ Logged("done", i) => HasForecast(i)

\* C16: a storm with insufficient data goes from Start straight to Skip, no
\* features being built for it; any other storm goes through Build Features,
\* Invoke Model, Descale in that order.
C16_StateMachine ==
    program = "deploy" =>
        \A i \in 1..NumStorms :
            /\ \/ IsPrefix(StormEvents(i), <<"skip">>)
               \/ IsPrefix(StormEvents(i), <<"features", "predict", "done">>)
            /\ ProcessedInOrder(i)

\* C16 as the code has it: the features of every storm are built first; a
\* storm with insufficient data is then skipped (no model call, no descaling),
\* any other goes on to Invoke Model and Descale in that order.
C16_FeaturesThenSkip ==
    program = "deploy" =>
        \A i \in 1..NumStorms :
            /\ \/ IsPrefix(StormEvents(i), <<"features", "skip">>)
               \/ IsPrefix(StormEvents(i), <<"features", "predict", "done">>)
            /\ ProcessedInOrder(i)

C16_Witness ==
    /\ program = "deploy"
    /\ \E i, j \in 1..NumStorms :
          /\ StormEvents(i) = <<"features", "skip">>
          /\ StormEvents(j) = <<"features", "predict", "done">>
          /\ HasForecast(j)

\* C17: a model whose output has k steps (3 <= k <= 5) gets exactly one
\* descaled forecast reported per step and variable, no step being left out
\* and none read beyond the output.
C17_OnePerStep ==
    program = "deploy" =>
        /\ error # "IndexError"
        /\ \A c \in Calls :
              Logged("done", c.storm) =>
                  \A d \in 0..(Len(c.output) - 1) :
                      \A v \in (IF model_type = "universal"
                                THEN {"wind", "lat", "long"} ELSE {model_type}) :
                          Cardinality({k \in 1..Len(forecasts) :
                              /\ forecasts[k].storm = c.storm
                              /\ forecasts[k].day = d
                              /\ forecasts[k].var = v}) = 1

\* positions of the inference calls in the log
InferencePos ==
    {k \in 1..Len(log) : log[k].ev \in {"inference_universal", "inference_singular"}}

ClearedBetween(a, b) ==
    \E k \in (a + 1)..(b - 1) : log[k].ev = "clear_session"

\* C18: between any two consecutive inference calls of a batch run, those of
\* the same storm included, the session is released.
C18_ClearBetweenCalls ==
    BatchMode =>
        \A a, b \in InferencePos :
            (a < b /\ ~\E k \in InferencePos : a < k /\ k < b) => ClearedBetween(a, b)

\* C18 as the code has it: the session is released once per storm, after
\* the storm's inference calls and before its tables, so between the calls
\* of two different storms there is a release.
C18_ClearBetweenStorms ==
    BatchMode =>
        /\ \A a, b \in InferencePos :
              (a < b /\ log[a].storm # log[b].storm) => ClearedBetween(a, b)
        /\ \A i \in 1..NumStorms :
              Logged("tables", i) => Logged("clear_session", i)

C18_Witness ==
    /\ BatchMode
    /\ \E a, b \in InferencePos :
          /\ a < b
          /\ log[a].storm # log[b].storm
          /\ log[a].ev = "inference_singular"

\* C19: when nhc() finds no active storms run_live_inference ends normally:
\* no storm processed, predict never called, no error raised.
C19_NoStormsNoError ==
    (program = "deploy" /\ storms.none) =>
        /\ error = "none"
        /\ pc # "crashed"
        /\ predict_calls = <<>>

====
